---- MODULE Spec2Model ----
(***************************************************************************)
(* Model of the uBPF static verifier, vm/ubpf_verifier.c (the second,      *)
(* current version of the file: the classifier isjmp/uses_src/sets_dst,    *)
(* the recursive path walker ubpf_walk_paths, the loop/dead-code pass, the *)
(* uninitialized-register pass and ubpf_verify).                           *)
(*                                                                         *)
(* The recursion of ubpf_walk_paths is modelled with an explicit stack of  *)
(* activation frames; one ubpf_walk_paths invocation is one frame.         *)
(***************************************************************************)
EXTENDS Integers, Sequences, FiniteSets, TLC

VARIABLES
    insts,      \* vm->insts, a sequence of instructions (offset k is insts[k+1])
    pc,         \* where ubpf_verify is: "verify", "loops", "loops_done", "regs", "done"
                \* ("walk": in a bare ubpf_walk_start with the always-continue visitor)
    visited,    \* the visited[] array of the running pass, indexed 0..num_insts-1
    reg_init,   \* the reg_init[16] array of the register pass
    stack,      \* active ubpf_walk_paths invocations, innermost last
    ret,        \* value returned by the ubpf_walk_paths invocation that just ended
    log,        \* the diagnostics written to stderr, in order
    loops_ret,  \* return value of ubpf_verify_no_loops_or_dead_insts
    regs_ret,   \* return value of ubpf_verify_no_uninit_regs
    result,     \* return value of ubpf_verify
    visits,     \* number of walk_fn invocations per offset in the running walk
    calls,      \* number of ubpf_verify calls made by the host so far
    prev        \* result and diagnostics of the previous ubpf_verify call

vars == <<insts, pc, visited, reg_init, stack, ret, log, loops_ret, regs_ret,
          result, visits, calls, prev>>

----------------------------------------------------------------------------
(* Bounds of the model *)

\* longest program of the general specification
MaxInsts == 3
\* largest forward branch offset; branch offsets range over -(MaxOff+1)..MaxOff
MaxOff == 1
\* longest program of the scenario specification
MaxScenInsts == 4
\* longest program of the control-flow specification
MaxFlowInsts == 5
\* largest forward branch offset of the control-flow specification
MaxFlowOff == 2
\* longest program of the unconditional-jump specification
MaxJaInsts == 4
\* longest program of the two-call specification
MaxTwiceInsts == 2
\* number of ubpf_verify calls the host makes in the two-call specification
MaxCalls == 2

----------------------------------------------------------------------------
(* Instruction encoding (ebpf.h) *)

EBPF_CLS_MASK == 7
EBPF_CLS_LD == 0
EBPF_CLS_LDX == 1
EBPF_CLS_ST == 2
EBPF_CLS_STX == 3
EBPF_CLS_ALU == 4
EBPF_CLS_JMP == 5
EBPF_CLS_ALU64 == 7
EBPF_SRC_REG == 8

EBPF_OP_ADD64_REG == EBPF_CLS_ALU64 + EBPF_SRC_REG + 0
EBPF_OP_NEG == EBPF_CLS_ALU + 128
EBPF_OP_NEG64 == EBPF_CLS_ALU64 + 128
EBPF_OP_XOR_REG == EBPF_CLS_ALU + EBPF_SRC_REG + 160
EBPF_OP_XOR64_REG == EBPF_CLS_ALU64 + EBPF_SRC_REG + 160
EBPF_OP_MOV64_IMM == EBPF_CLS_ALU64 + 176
EBPF_OP_MOV64_REG == EBPF_CLS_ALU64 + EBPF_SRC_REG + 176
EBPF_OP_LE == EBPF_CLS_ALU + 208
EBPF_OP_BE == EBPF_CLS_ALU + EBPF_SRC_REG + 208
EBPF_OP_LDDW == EBPF_CLS_LD + 24
EBPF_OP_JA == EBPF_CLS_JMP + 0
EBPF_OP_JEQ_IMM == EBPF_CLS_JMP + 16
EBPF_OP_JEQ_REG == EBPF_CLS_JMP + EBPF_SRC_REG + 16
EBPF_OP_CALL == EBPF_CLS_JMP + 128
EBPF_OP_EXIT == EBPF_CLS_JMP + 144

\* opcode & EBPF_CLS_MASK (the mask is the low three bits)
ClsOf(opcode) == opcode % (EBPF_CLS_MASK + 1)
\* opcode & EBPF_SRC_REG (one bit)
SrcBitOf(opcode) == ((opcode \div EBPF_SRC_REG) % 2) * EBPF_SRC_REG

Inst(op, d, s, o) == [opcode |-> op, dst |-> d, src |-> s, offset |-> o]

\* enum ubpf_walk_action
UBPF_WALK_CONTINUE == 0
UBPF_WALK_STOP == 1
UBPF_WALK_INVALID == 2

\* no value: a function that has not returned
NoValue == 0 - 1

\* number of slots of reg_init
NumRegSlots == 16

----------------------------------------------------------------------------
(* Helpers *)

\* isjmp without the exclusion of call: every jump-class opcode is a jump
isjmp_AlsoCall(inst) == ClsOf(inst.opcode) = EBPF_CLS_JMP

isjmp(inst) ==
    (ClsOf(inst.opcode) = EBPF_CLS_JMP) /\ (inst.opcode # EBPF_OP_CALL)

\* uses_src without its first case: exit not classified as reading
uses_src_NoExit(inst) ==
    LET cls == ClsOf(inst.opcode)
    IN  IF (cls = EBPF_CLS_STX) \/ (cls = EBPF_CLS_LDX) THEN TRUE
        ELSE IF ((cls = EBPF_CLS_ALU) \/ (cls = EBPF_CLS_ALU64) \/ (cls = EBPF_CLS_JMP))
                /\ (SrcBitOf(inst.opcode) # 0)
             THEN IF \/ inst.opcode = EBPF_OP_NEG
                     \/ inst.opcode = EBPF_OP_NEG64
                     \/ inst.opcode = EBPF_OP_LE
                     \/ inst.opcode = EBPF_OP_BE
                     \/ inst.opcode = EBPF_OP_LDDW
                     \/ inst.opcode = EBPF_OP_JA
                     \/ inst.opcode = EBPF_OP_CALL
                  THEN FALSE
                  ELSE TRUE
        ELSE FALSE

uses_src(inst) ==
    LET cls == ClsOf(inst.opcode)
    IN  IF inst.opcode = EBPF_OP_EXIT THEN TRUE
        ELSE IF (cls = EBPF_CLS_STX) \/ (cls = EBPF_CLS_LDX) THEN TRUE
        ELSE IF ((cls = EBPF_CLS_ALU) \/ (cls = EBPF_CLS_ALU64) \/ (cls = EBPF_CLS_JMP))
                /\ (SrcBitOf(inst.opcode) # 0)
             THEN IF \/ inst.opcode = EBPF_OP_NEG
                     \/ inst.opcode = EBPF_OP_NEG64
                     \/ inst.opcode = EBPF_OP_LE
                     \/ inst.opcode = EBPF_OP_BE
                     \/ inst.opcode = EBPF_OP_LDDW
                     \/ inst.opcode = EBPF_OP_JA
                     \/ inst.opcode = EBPF_OP_CALL
                  THEN FALSE
                  ELSE TRUE
        ELSE FALSE

sets_dst(inst) ==
    LET cls == ClsOf(inst.opcode)
    IN  IF (cls = EBPF_CLS_ST) \/ (cls = EBPF_CLS_STX) \/ (cls = EBPF_CLS_JMP)
        THEN FALSE
        ELSE TRUE

----------------------------------------------------------------------------
(* Diagnostics (the fprintf(stderr, ...) lines) *)

Diag(k, o, a) == [kind |-> k, off |-> o, arg |-> a]
DiagSelf(inst_off) == Diag("Jump to self", inst_off, 0)
DiagOob(inst_off, next_pc) == Diag("Jump out-of-bounds", inst_off, next_pc)
DiagLoop(inst_off) == Diag("Loop detected", inst_off, 0)
DiagDead(i) == Diag("Dead instruction", i, 0)
DiagUninit(reg, inst_off) == Diag("Uninitialized register", inst_off, reg)

----------------------------------------------------------------------------
(* Instruction Walker *)

num_insts == Len(insts)
InstAt(inst_off) == insts[inst_off + 1]
Offsets == 0 .. (num_insts - 1)

\* char visited[vm->num_insts]; memset(visited, 0, vm->num_insts)
FreshVisited == [i \in Offsets |-> 0]

\* the frame of the innermost ubpf_walk_paths invocation
Top == stack[Len(stack)]
Frame(inst_off, at) == [inst_off |-> inst_off, at |-> at]
Pop(s) == SubSeq(s, 1, Len(s) - 1)

\* what an invocation does next: return a value, or call itself on another offset
\* (from the jump at line 247 or from the fall-through at line 255)
DoReturn(cmd, diag) == [op |-> "return", val |-> cmd, at |-> "none", diag |-> diag]
DoCall(inst_off, at) == [op |-> "call", val |-> inst_off, at |-> at, diag |-> <<>>]

\* lines 252-256
FallThrough(inst_off) ==
    IF inst_off = num_insts - 1
    THEN DoReturn(UBPF_WALK_CONTINUE, <<>>)
    ELSE DoCall(inst_off + 1, "fall")

\* JumpCheck without the jump-to-self test
JumpCheck_NoSelf(next_pc, inst_off) ==
    IF (next_pc < 0) \/ (next_pc > num_insts - 1) THEN "oob"
    ELSE "ok"

\* lines 239-245: the checks of a jump's target
JumpCheck(next_pc, inst_off) ==
    IF next_pc = inst_off THEN "self"
    ELSE IF (next_pc < 0) \/ (next_pc > num_insts - 1) THEN "oob"
    ELSE "ok"

\* the walker without the visited[next_pc] == 0 test of line 246
WalkBody_NoVisitedTest(cmd, inst, inst_off, vis) ==
    IF cmd # UBPF_WALK_CONTINUE THEN DoReturn(cmd, <<>>)
    ELSE IF inst.opcode = EBPF_OP_EXIT THEN DoReturn(UBPF_WALK_CONTINUE, <<>>)
    ELSE IF isjmp(inst)
         THEN LET next_pc == inst_off + 1 + inst.offset
                  chk == JumpCheck(next_pc, inst_off)
              IN  IF chk = "self"
                  THEN DoReturn(UBPF_WALK_INVALID, <<DiagSelf(inst_off)>>)
                  ELSE IF chk = "oob"
                  THEN DoReturn(UBPF_WALK_INVALID, <<DiagOob(inst_off, next_pc)>>)
                  ELSE DoCall(next_pc, "jump")
    ELSE FallThrough(inst_off)

\* lines 233-256, after walk_fn returned cmd and visited[inst_off] was set
WalkBody(cmd, inst, inst_off, vis) ==
    IF cmd # UBPF_WALK_CONTINUE THEN DoReturn(cmd, <<>>)
    ELSE IF inst.opcode = EBPF_OP_EXIT THEN DoReturn(UBPF_WALK_CONTINUE, <<>>)
    ELSE IF isjmp(inst)
         THEN LET next_pc == inst_off + 1 + inst.offset
                  chk == JumpCheck(next_pc, inst_off)
              IN  IF chk = "self"
                  THEN DoReturn(UBPF_WALK_INVALID, <<DiagSelf(inst_off)>>)
                  ELSE IF chk = "oob"
                  THEN DoReturn(UBPF_WALK_INVALID, <<DiagOob(inst_off, next_pc)>>)
                  ELSE IF vis[next_pc] = 0
                  THEN DoCall(next_pc, "jump")
                  ELSE FallThrough(inst_off)
    ELSE FallThrough(inst_off)

\* the caller going on to its fall-through whatever the call at line 247 returned
ResumeJump_IgnoresVerdict(cmd, inst_off) == FallThrough(inst_off)

\* lines 248-256: the caller resumes after the call at line 247 returned cmd
ResumeJump(cmd, inst_off) ==
    IF cmd = UBPF_WALK_STOP \/ cmd = UBPF_WALK_INVALID
    THEN DoReturn(cmd, <<>>)
    ELSE FallThrough(inst_off)

----------------------------------------------------------------------------
(* Verifier Passes: the two walk_fn visitors *)

\* g is the value of a read of visited[] outside the array (a negative
\* target): the read is undefined behaviour, so any value may come back.
walker_no_loops_or_dead_insts(inst, inst_off, vis, g) ==
    LET t == inst_off + 1 + inst.offset
        v == IF t \in DOMAIN vis THEN vis[t] ELSE g
    IN  IF isjmp(inst) /\ (t < inst_off) /\ (v # 0)
        THEN [cmd |-> UBPF_WALK_STOP, regs |-> reg_init, diag |-> <<DiagLoop(inst_off)>>]
        ELSE [cmd |-> UBPF_WALK_CONTINUE, regs |-> reg_init, diag |-> <<>>]

\* lines 87-91: the visitor that always continues
walker_no_dead_insts(inst, inst_off, vis) ==
    [cmd |-> UBPF_WALK_CONTINUE, regs |-> reg_init, diag |-> <<>>]

\* a call that also clears the argument registers r1..r5
AfterCall_ClobbersArgs(inst, regs) ==
    IF inst.opcode = EBPF_OP_CALL
    THEN [r \in DOMAIN regs |-> IF r = 0 THEN 1 ELSE IF r \in 1 .. 5 THEN 0 ELSE regs[r]]
    ELSE regs

\* lines 311-312
AfterCall(inst, regs) ==
    IF inst.opcode = EBPF_OP_CALL THEN [regs EXCEPT ![0] = 1] ELSE regs

\* the register visitor testing the slot of the destination register
walker_no_uninit_regs_ChecksDst(inst, inst_off, regs) ==
    IF ((inst.opcode = EBPF_OP_XOR_REG) \/ (inst.opcode = EBPF_OP_XOR64_REG))
       /\ (inst.dst = inst.src)
    THEN [cmd |-> UBPF_WALK_CONTINUE,
          regs |-> AfterCall(inst, [regs EXCEPT ![inst.dst] = 1]),
          diag |-> <<>>]
    ELSE IF uses_src(inst) /\ (regs[inst.dst] = 0)
    THEN [cmd |-> UBPF_WALK_STOP, regs |-> regs,
          diag |-> <<DiagUninit(inst.src, inst_off)>>]
    ELSE IF sets_dst(inst)
    THEN [cmd |-> UBPF_WALK_CONTINUE,
          regs |-> AfterCall(inst, [regs EXCEPT ![inst.dst] = 1]),
          diag |-> <<>>]
    ELSE [cmd |-> UBPF_WALK_CONTINUE, regs |-> AfterCall(inst, regs), diag |-> <<>>]

\* the register visitor knowing the zero idiom for the 64-bit xor only
walker_no_uninit_regs_Xor64Only(inst, inst_off, regs) ==
    IF (inst.opcode = EBPF_OP_XOR64_REG) /\ (inst.dst = inst.src)
    THEN [cmd |-> UBPF_WALK_CONTINUE,
          regs |-> AfterCall(inst, [regs EXCEPT ![inst.dst] = 1]),
          diag |-> <<>>]
    ELSE IF uses_src(inst) /\ (regs[inst.src] = 0)
    THEN [cmd |-> UBPF_WALK_STOP, regs |-> regs,
          diag |-> <<DiagUninit(inst.src, inst_off)>>]
    ELSE IF sets_dst(inst)
    THEN [cmd |-> UBPF_WALK_CONTINUE,
          regs |-> AfterCall(inst, [regs EXCEPT ![inst.dst] = 1]),
          diag |-> <<>>]
    ELSE [cmd |-> UBPF_WALK_CONTINUE, regs |-> AfterCall(inst, regs), diag |-> <<>>]

walker_no_uninit_regs(inst, inst_off, regs) ==
    IF ((inst.opcode = EBPF_OP_XOR_REG) \/ (inst.opcode = EBPF_OP_XOR64_REG))
       /\ (inst.dst = inst.src)
    THEN [cmd |-> UBPF_WALK_CONTINUE,
          regs |-> AfterCall(inst, [regs EXCEPT ![inst.dst] = 1]),
          diag |-> <<>>]
    ELSE IF uses_src(inst) /\ (regs[inst.src] = 0)
    THEN [cmd |-> UBPF_WALK_STOP, regs |-> regs,
          diag |-> <<DiagUninit(inst.src, inst_off)>>]
    ELSE IF sets_dst(inst)
    THEN [cmd |-> UBPF_WALK_CONTINUE,
          regs |-> AfterCall(inst, [regs EXCEPT ![inst.dst] = 1]),
          diag |-> <<>>]
    ELSE [cmd |-> UBPF_WALK_CONTINUE, regs |-> AfterCall(inst, regs), diag |-> <<>>]

\* char reg_init[16] = {0}; reg_init[1] = 1; reg_init[10] = 1;
FreshRegInit == [r \in 0 .. (NumRegSlots - 1) |-> IF r = 1 \/ r = 10 THEN 1 ELSE 0]

\* the pass returning the walk's verdict alone
RetOrDead_IgnoreDead(r, any_dead) == r

\* ret | any_dead
RetOrDead(r, any_dead) == IF any_dead = 0 THEN r ELSE IF r = 2 THEN 3 ELSE 1

\* the scan as lines 99-100 had it: skipped when the walk did not return continue
RECURSIVE DeadDiags_OnlyAfterContinue(_, _)
DeadDiags_OnlyAfterContinue(vis, i) ==
    IF (ret # UBPF_WALK_CONTINUE) \/ (i > num_insts - 1) THEN <<>>
    ELSE (IF vis[i] = 0 THEN <<DiagDead(i)>> ELSE <<>>)
         \o DeadDiags_OnlyAfterContinue(vis, i + 1)

\* the fprintf lines of the scan, offsets ascending
RECURSIVE DeadDiags(_, _)
DeadDiags(vis, i) ==
    IF i > num_insts - 1 THEN <<>>
    ELSE (IF vis[i] = 0 THEN <<DiagDead(i)>> ELSE <<>>) \o DeadDiags(vis, i + 1)

\* ubpf_verify going on to the register pass whatever the first pass returned
LoopsPassFailed_Never(r) == FALSE

\* ubpf_verify line 328: the register pass runs only when the first pass returned 0
LoopsPassFailed(r) == r # 0

----------------------------------------------------------------------------
(* Actions *)

\* the effect of an invocation's next move on the call stack
Apply(ctl) ==
    IF ctl.op = "return"
    THEN /\ stack' = Pop(stack)
         /\ ret' = ctl.val
    ELSE /\ stack' = Append([stack EXCEPT ![Len(stack)].at = ctl.at],
                            Frame(ctl.val, "entry"))
         /\ ret' = NoValue

\* the host calls ubpf_verify, which calls ubpf_verify_no_loops_or_dead_insts,
\* which clears visited and calls ubpf_walk_paths at offset 0
ubpf_verify_call ==
    /\ pc = "verify"
    /\ pc' = "loops"
    /\ visited' = FreshVisited
    /\ visits' = FreshVisited
    /\ stack' = <<Frame(0, "entry")>>
    /\ ret' = NoValue
    /\ calls' = calls + 1
    /\ UNCHANGED <<insts, reg_init, log, loops_ret, regs_ret, result, prev>>

\* one invocation of ubpf_walk_paths, from its entry to its return or to the
\* recursive call it makes
ubpf_walk_paths ==
    /\ pc \in {"loops", "regs", "walk"}
    /\ stack # <<>>
    /\ Top.at = "entry"
    /\ \E g \in {0, 1} :
        LET inst_off == Top.inst_off
            inst == InstAt(inst_off)
            v == IF pc = "loops"
                 THEN walker_no_loops_or_dead_insts(inst, inst_off, visited, g)
                 ELSE IF pc = "regs"
                 THEN walker_no_uninit_regs(inst, inst_off, reg_init)
                 ELSE walker_no_dead_insts(inst, inst_off, visited)
            vis == [visited EXCEPT ![inst_off] = 1]
            ctl == WalkBody(v.cmd, inst, inst_off, vis)
        IN  /\ visited' = vis
            /\ visits' = [visits EXCEPT ![inst_off] = @ + 1]
            /\ reg_init' = v.regs
            /\ log' = log \o v.diag \o ctl.diag
            /\ Apply(ctl)
    /\ UNCHANGED <<insts, pc, loops_ret, regs_ret, result, calls, prev>>

\* a recursive call returned: its caller resumes
ubpf_walk_paths_resume ==
    /\ pc \in {"loops", "regs", "walk"}
    /\ stack # <<>>
    /\ ret # NoValue
    /\ Top.at # "entry"
    /\ LET ctl == IF Top.at = "jump"
                  THEN ResumeJump(ret, Top.inst_off)
                  ELSE DoReturn(ret, <<>>)
       IN  Apply(ctl)
    /\ UNCHANGED <<insts, pc, visited, reg_init, log, loops_ret, regs_ret,
                   result, visits, calls, prev>>

\* lines 286-293: the walk of the first pass returned; scan visited
ubpf_verify_no_loops_or_dead_insts ==
    /\ pc = "loops"
    /\ stack = <<>>
    /\ ret # NoValue
    /\ LET dead == DeadDiags(visited, 0)
           any_dead == IF dead = <<>> THEN 0 ELSE 1
       IN  /\ log' = log \o dead
           /\ loops_ret' = RetOrDead(ret, any_dead)
    /\ pc' = "loops_done"
    /\ UNCHANGED <<insts, visited, reg_init, stack, ret, regs_ret, result,
                   visits, calls, prev>>

\* ubpf_verify lines 328-330: return 1, or call ubpf_verify_no_uninit_regs,
\* which sets up reg_init and calls ubpf_walk_start
ubpf_verify_no_uninit_regs ==
    /\ pc = "loops_done"
    /\ IF LoopsPassFailed(loops_ret)
       THEN /\ result' = 1
            /\ pc' = "done"
            /\ UNCHANGED <<visited, reg_init, stack, ret, visits>>
       ELSE /\ pc' = "regs"
            /\ reg_init' = FreshRegInit
            /\ visited' = FreshVisited
            /\ visits' = FreshVisited
            /\ stack' = <<Frame(0, "entry")>>
            /\ ret' = NoValue
            /\ UNCHANGED result
    /\ UNCHANGED <<insts, log, loops_ret, regs_ret, calls, prev>>

\* ubpf_verify lines 330-332: the register pass returned
ubpf_verify_return ==
    /\ pc = "regs"
    /\ stack = <<>>
    /\ ret # NoValue
    /\ regs_ret' = ret
    /\ result' = IF ret # 0 THEN 1 ELSE 0
    /\ pc' = "done"
    /\ UNCHANGED <<insts, visited, reg_init, stack, ret, log, loops_ret,
                   visits, calls, prev>>

\* lines 259-265: ubpf_walk_start called with the always-continue visitor
ubpf_walk_start ==
    /\ pc = "verify"
    /\ pc' = "walk"
    /\ visited' = FreshVisited
    /\ visits' = FreshVisited
    /\ stack' = <<Frame(0, "entry")>>
    /\ ret' = NoValue
    /\ calls' = calls + 1
    /\ UNCHANGED <<insts, reg_init, log, loops_ret, regs_ret, result, prev>>

\* line 264: that ubpf_walk_start returns the verdict of the walk
ubpf_walk_start_return ==
    /\ pc = "walk"
    /\ stack = <<>>
    /\ ret # NoValue
    /\ result' = ret
    /\ pc' = "done"
    /\ UNCHANGED <<insts, visited, reg_init, stack, ret, log, loops_ret,
                   regs_ret, visits, calls, prev>>

\* the host calls ubpf_verify again on the same program
ubpf_verify_again ==
    /\ pc = "done"
    /\ calls < MaxCalls
    /\ prev' = [result |-> result, log |-> log]
    /\ pc' = "verify"
    /\ log' = <<>>
    /\ loops_ret' = NoValue
    /\ regs_ret' = NoValue
    /\ result' = NoValue
    /\ UNCHANGED <<insts, visited, reg_init, stack, ret, visits, calls>>

----------------------------------------------------------------------------
(* Programs *)

Programs(kinds, maxlen) == UNION {[1 .. n -> kinds] : n \in 1 .. maxlen}

BranchOffsets(maxoff) == (0 - (maxoff + 1)) .. maxoff

I_MOV_IMM == Inst(EBPF_OP_MOV64_IMM, 0, 0, 0)
I_EXIT == Inst(EBPF_OP_EXIT, 0, 0, 0)
I_CALL == Inst(EBPF_OP_CALL, 0, 0, 0)
I_ADD_R0_R3 == Inst(EBPF_OP_ADD64_REG, 0, 3, 0)
I_XOR_R3_R3 == Inst(EBPF_OP_XOR64_REG, 3, 3, 0)
I_MOV_R0_R1 == Inst(EBPF_OP_MOV64_REG, 0, 1, 0)
I_MOV_R0_R10 == Inst(EBPF_OP_MOV64_REG, 0, 10, 0)
I_JEQ_IMM(o) == Inst(EBPF_OP_JEQ_IMM, 1, 0, o)
I_JA(o) == Inst(EBPF_OP_JA, 0, 0, o)

GeneralInsts ==
    {I_MOV_IMM, I_EXIT, I_CALL, I_ADD_R0_R3, I_XOR_R3_R3}
    \cup {I_JEQ_IMM(o) : o \in BranchOffsets(MaxOff)}
    \cup {I_JA(o) : o \in BranchOffsets(MaxOff)}

InitWith(progs) ==
    /\ insts \in progs
    /\ pc = "verify"
    /\ visited = [i \in 0 .. (Len(insts) - 1) |-> 0]
    /\ visits = [i \in 0 .. (Len(insts) - 1) |-> 0]
    /\ reg_init = [r \in 0 .. (NumRegSlots - 1) |-> 0]
    /\ stack = <<>>
    /\ ret = NoValue
    /\ log = <<>>
    /\ loops_ret = NoValue
    /\ regs_ret = NoValue
    /\ result = NoValue
    /\ calls = 0
    /\ prev = [result |-> NoValue, log |-> <<>>]

Init == InitWith(Programs(GeneralInsts, MaxInsts))

Next ==
    \/ ubpf_verify_call
    \/ ubpf_walk_paths
    \/ ubpf_walk_paths_resume
    \/ ubpf_verify_no_loops_or_dead_insts
    \/ ubpf_verify_no_uninit_regs
    \/ ubpf_verify_return

Spec == Init /\ [][Next]_vars

----------------------------------------------------------------------------
(* Further specifications: the same verifier on other families of programs *)

\* control flow only: conditional jumps, a register write and exit
FlowInsts ==
    {I_MOV_IMM, I_EXIT} \cup {I_JEQ_IMM(o) : o \in BranchOffsets(MaxFlowOff)}

InitFlow == InitWith(Programs(FlowInsts, MaxFlowInsts))
SpecFlow == InitFlow /\ [][Next]_vars

\* control flow with unconditional jumps
JaInsts ==
    {I_MOV_IMM, I_EXIT}
    \cup {I_JEQ_IMM(o) : o \in BranchOffsets(MaxOff)}
    \cup {I_JA(o) : o \in BranchOffsets(MaxOff)}

InitJa == InitWith(Programs(JaInsts, MaxJaInsts))
SpecJa == InitJa /\ [][Next]_vars

\* the instructions of the documented scenarios
ScenInsts ==
    {I_JEQ_IMM(1), I_MOV_R0_R1, I_MOV_R0_R10, I_EXIT, I_ADD_R0_R3, I_XOR_R3_R3}

InitScen == InitWith(Programs(ScenInsts, MaxScenInsts))
SpecScen == InitScen /\ [][Next]_vars

\* the host verifies the same program MaxCalls times
InitTwice == InitWith(Programs(GeneralInsts, MaxTwiceInsts))
NextTwice == Next \/ ubpf_verify_again
SpecTwice == InitTwice /\ [][NextTwice]_vars

----------------------------------------------------------------------------
(* The control-flow graph of the program, for stating the properties *)

Range(s) == {s[k] : k \in DOMAIN s}

Accepted == pc = "done" /\ result = 0
Rejected == pc = "done" /\ result = 1

JumpTarget(i) == i + 1 + InstAt(i).offset

\* a branch: a jump-class instruction that is neither call nor exit
IsBranch(i) == isjmp(InstAt(i)) /\ InstAt(i).opcode # EBPF_OP_EXIT

\* a jump edge from every branch, a fall-through edge from every instruction
\* that is neither exit nor the unconditional jump
Succ(i) ==
    (IF IsBranch(i) /\ JumpTarget(i) \in Offsets THEN {JumpTarget(i)} ELSE {})
    \cup (IF InstAt(i).opcode # EBPF_OP_EXIT /\ InstAt(i).opcode # EBPF_OP_JA
             /\ i < num_insts - 1
          THEN {i + 1} ELSE {})

Pred(i) == {p \in Offsets : i \in Succ(p)}

RECURSIVE ReachFrom(_)
ReachFrom(S) ==
    LET T == S \cup UNION {Succ(i) : i \in S}
    IN  IF T = S THEN S ELSE ReachFrom(T)

Reachable == ReachFrom({0})
OnCycle(i) == i \in ReachFrom(Succ(i))

IsXorIdiom(inst) ==
    /\ (inst.opcode = EBPF_OP_XOR_REG) \/ (inst.opcode = EBPF_OP_XOR64_REG)
    /\ inst.dst = inst.src

\* the register an instruction reads, and the registers it writes
ReadsOf(i) ==
    IF uses_src(InstAt(i)) /\ ~IsXorIdiom(InstAt(i)) THEN {InstAt(i).src} ELSE {}
WritesOf(i) ==
    (IF IsXorIdiom(InstAt(i)) \/ sets_dst(InstAt(i)) THEN {InstAt(i).dst} ELSE {})
    \cup (IF InstAt(i).opcode = EBPF_OP_CALL THEN {0} ELSE {})

AllRegs == 0 .. (NumRegSlots - 1)

\* registers written on every path from offset 0 to the entry of each
\* instruction: the greatest solution of the must-be-assigned equations
MustStep(in) ==
    [i \in Offsets |->
        LET fromPreds == {in[p] \cup WritesOf(p) : p \in Pred(i)}
            meet == {r \in AllRegs : \A s \in fromPreds : r \in s}
        IN  IF i = 0 THEN {1, 10} \cap meet ELSE meet]

RECURSIVE MustFix(_)
MustFix(in) == LET nxt == MustStep(in) IN IF nxt = in THEN in ELSE MustFix(nxt)

MustInit == MustFix([i \in Offsets |-> IF i = 0 THEN {1, 10} ELSE AllRegs])

----------------------------------------------------------------------------
(* Properties *)

\* C1 (loop soundness): an accepted program has no control-flow cycle among
\* the instructions reachable from offset 0.
C1_LoopSoundness ==
    Accepted => \A i \in Reachable : ~OnCycle(i)

\* C2 (register definite assignment): in an accepted program every register
\* read is of r1, r10 or a register written earlier on every path from
\* offset 0 to the reading instruction.
C2_DefiniteAssignment ==
    Accepted => \A i \in Offsets : ReadsOf(i) \subseteq MustInit[i]

\* C3 (reachability completeness): a program with an instruction that has no
\* incoming edge from a reachable instruction is rejected and that offset is
\* reported dead.
C3_ReachabilityComplete ==
    pc = "done" =>
        \A i \in Offsets :
            (i # 0 /\ Pred(i) \cap Reachable = {}) =>
                (result = 1 /\ DiagDead(i) \in Range(log))

HasDiag(kind) == \E k \in DOMAIN log : log[k].kind = kind

\* a branch whose computed target is its own offset / lies outside the program
SelfJump(k) == IsBranch(k) /\ JumpTarget(k) = k
OobJump(k) == IsBranch(k) /\ JumpTarget(k) \notin Offsets

\* C4 as claimed (self-jump and bounds rejection), here for self-jumps and
\* for targets past the end of the program: every such jump is rejected with
\* its own report (jump to self; out of bounds with a structurally-invalid
\* walk), wherever the jump is in the program.
C4_AlwaysDiagnosed ==
    pc = "done" =>
        \A k \in Offsets :
            /\ SelfJump(k) => (result = 1 /\ DiagSelf(k) \in Range(log))
            /\ (IsBranch(k) /\ JumpTarget(k) > num_insts - 1) =>
                  (result = 1 /\ ret = UBPF_WALK_INVALID
                   /\ DiagOob(k, JumpTarget(k)) \in Range(log))

\* C4 as amended: a program with a self-jump or an out-of-bounds jump is
\* always rejected, by the loop/dead-code pass; the jump-to-self or
\* out-of-bounds report and the structurally-invalid verdict are produced
\* when the walk reaches that jump (a negative target may instead be reported
\* as a loop); a jump the walk never reaches is not reported as such.
C4_RejectedAndDiagnosedWhenReached ==
    pc = "done" =>
        \A k \in Offsets :
            (SelfJump(k) \/ OobJump(k)) =>
                /\ result = 1
                /\ loops_ret # 0
                /\ regs_ret = NoValue
                /\ (visited[k] = 1 /\ SelfJump(k)) =>
                      (ret = UBPF_WALK_INVALID /\ log[1] = DiagSelf(k))
                /\ (visited[k] = 1 /\ JumpTarget(k) > num_insts - 1) =>
                      (ret = UBPF_WALK_INVALID /\ log[1] = DiagOob(k, JumpTarget(k)))
                /\ (visited[k] = 1 /\ JumpTarget(k) < 0) =>
                      \/ ret = UBPF_WALK_INVALID /\ log[1] = DiagOob(k, JumpTarget(k))
                      \/ ret = UBPF_WALK_STOP /\ log[1] = DiagLoop(k)

\* C4 witness: a self-jump that is not the first instruction was reached and
\* the program rejected as structurally invalid.
C4_Witness ==
    /\ pc = "done"
    /\ result = 1
    /\ \E k \in Offsets : k > 0 /\ SelfJump(k) /\ visited[k] = 1
                          /\ ret = UBPF_WALK_INVALID

\* C5 (fail-fast ordering): the loop/dead-code pass runs first and to
\* completion; the register pass is invoked only after it returned 0, so no
\* register diagnostic follows a failed first pass; ubpf_verify returns 0
\* iff both passes returned 0.
C5_FailFast ==
    /\ pc \in {"verify", "loops"} =>
          (loops_ret = NoValue /\ regs_ret = NoValue
           /\ ~HasDiag("Uninitialized register"))
    /\ (pc = "regs" \/ regs_ret # NoValue) => loops_ret = 0
    /\ (loops_ret # NoValue /\ loops_ret # 0) =>
          /\ pc \in {"loops_done", "done"}
          /\ regs_ret = NoValue
          /\ reg_init = [r \in AllRegs |-> 0]
          /\ ~HasDiag("Uninitialized register")
    /\ pc = "done" =>
          /\ result \in {0, 1}
          /\ (result = 0) <=> (loops_ret = 0 /\ regs_ret = 0)

\* C5 witness: a program that starts by reading the uninitialized r3 and
\* also fails the loop/dead-code pass has been rejected.
C5_Witness ==
    /\ pc = "done"
    /\ insts[1] = I_ADD_R0_R3
    /\ loops_ret # 0
    /\ result = 1

ProgExit == <<I_EXIT>>

\* C6 as claimed: the program [exit] is accepted without any report.
C6_ExitAccepted ==
    (insts = ProgExit /\ pc = "done") => (result = 0 /\ log = <<>>)

\* C6 as amended: the program [exit] passes the loop/dead-code pass without
\* a report and is rejected by the register pass, which reports r0 (the
\* source field of exit) as uninitialized at offset 0.
C6_ExitRejectedUninitR0 ==
    (insts = ProgExit /\ pc = "done") =>
        /\ result = 1
        /\ loops_ret = 0
        /\ regs_ret = UBPF_WALK_STOP
        /\ log = <<DiagUninit(0, 0)>>

\* C6 witness: ubpf_verify has returned on [exit].
C6_Witness == insts = ProgExit /\ pc = "done" /\ result = 1

ProgDiamond == <<I_JEQ_IMM(1), I_MOV_R0_R1, I_EXIT, I_MOV_R0_R10>>

\* C7 as claimed: the diamond program is accepted without any report.
C7_DiamondAccepted ==
    (insts = ProgDiamond /\ pc = "done") => (result = 0 /\ log = <<>>)

\* C7 as amended: the diamond program is rejected: the walk of the first
\* pass returns continue having reached offsets 0, 1 and 2 (the branch
\* target and the fall-through), offset 3 is never reached and is the one
\* report (dead instruction), and the register pass does not run.
C7_DiamondRejectedDead ==
    (insts = ProgDiamond /\ pc = "done") =>
        /\ result = 1
        /\ ret = UBPF_WALK_CONTINUE
        /\ visited = [i \in Offsets |-> IF i = 3 THEN 0 ELSE 1]
        /\ log = <<DiagDead(3)>>
        /\ loops_ret = 1
        /\ regs_ret = NoValue

\* C7 witness: ubpf_verify has returned on the diamond program.
C7_Witness == insts = ProgDiamond /\ pc = "done" /\ result = 1

ProgAddR3 == <<I_ADD_R0_R3, I_EXIT>>

\* the register visitor is about to visit an instruction that reads its
\* source register while that register's slot is 0
AboutToReadUninit ==
    /\ pc = "regs"
    /\ stack # <<>>
    /\ Top.at = "entry"
    /\ ReadsOf(Top.inst_off) # {}
    /\ reg_init[InstAt(Top.inst_off).src] = 0

\* C8 (uninitialized-read detection): when the register pass visits an
\* instruction that reads an unmarked source register, the visit returns
\* stop, reports exactly that register and offset and marks no register;
\* a register pass that stopped makes ubpf_verify return 1; and
\* [add r0 += r3; exit] is rejected naming r3 at offset 0.
C8_UninitReadDetected ==
    /\ [][AboutToReadUninit =>
            /\ ret' = UBPF_WALK_STOP
            /\ stack' = Pop(stack)
            /\ reg_init' = reg_init
            /\ log' = Append(log, DiagUninit(InstAt(Top.inst_off).src, Top.inst_off))
         ]_vars
    /\ [](pc = "regs" /\ ret = UBPF_WALK_STOP =>
            (Len(log) = 1 /\ log[1].kind = "Uninitialized register"))
    /\ []((pc = "done" /\ HasDiag("Uninitialized register")) =>
            (result = 1 /\ regs_ret = UBPF_WALK_STOP /\ loops_ret = 0))
    /\ []((insts = ProgAddR3 /\ pc = "done") =>
            (result = 1 /\ log = <<DiagUninit(3, 0)>>))

\* C8 witness: [add r0 += r3; exit] was rejected after the register pass
\* stopped at offset 0 with r0 still unmarked.
C8_Witness ==
    /\ insts = ProgAddR3
    /\ pc = "done"
    /\ result = 1
    /\ regs_ret = UBPF_WALK_STOP
    /\ reg_init[0] = 0

\* C9 (determinism): a second ubpf_verify call on the same program returns
\* the same verdict and writes the same diagnostics as the first, and every
\* walk starts from an all-zero visited set (the register pass from a bitmap
\* with only r1 and r10 set).
C9_SameVerdictAndDiagnostics ==
    /\ (pc = "done" /\ calls > 1) => (result = prev.result /\ log = prev.log)
    /\ (pc \in {"loops", "regs"} /\ stack = <<Frame(0, "entry")>>) =>
          /\ visited = FreshVisited
          /\ pc = "regs" => reg_init = FreshRegInit

\* C10 (visit-once): in a walk the visitor is invoked at most once per
\* offset, so never on an offset that is already marked visited.
C10_VisitOnce ==
    \A i \in Offsets : visits[i] <= 1

----------------------------------------------------------------------------
(* The walker under each of its visitors, with the progress the code makes *)

\* longest program of the walk specification
MaxWalkInsts == 3

WalkInsts ==
    {I_MOV_IMM, I_EXIT, I_ADD_R0_R3}
    \cup {I_JEQ_IMM(o) : o \in BranchOffsets(MaxOff)}
    \cup {I_JA(o) : o \in BranchOffsets(MaxOff)}

InitWalk == InitWith(Programs(WalkInsts, MaxWalkInsts))
NextWalk == Next \/ ubpf_walk_start \/ ubpf_walk_start_return
\* the verifier is straight-line sequential code: a step that can be taken is taken
SpecWalk == InitWalk /\ [][NextWalk]_vars /\ WF_vars(NextWalk)

InWalk == pc \in {"loops", "regs", "walk"}
WalkRunning == InWalk /\ stack # <<>>
WalkReturned == InWalk /\ stack = <<>> /\ ret # NoValue

RECURSIVE SumTo(_, _)
SumTo(f, i) == IF i < 0 THEN 0 ELSE f[i] + SumTo(f, i - 1)
\* walk_fn invocations made so far by the running walk
TotalVisits == SumTo(visits, num_insts - 1)

\* C11 (termination): under every visitor a walk that was started returns a
\* verdict; the walk makes progress because offset i is entered at most
\* once through a jump and otherwise only from offset i-1, so the visitor
\* runs at most i+1 times on offset i.
C11_WalkTerminates ==
    /\ WalkRunning ~> WalkReturned
    /\ [](\A i \in Offsets : visits[i] <= i + 1)

\* C11 witness: the always-continue visitor has walked to the end a program
\* that has a backward jump lying on a control-flow cycle.
C11_Witness ==
    /\ pc = "walk"
    /\ stack = <<>>
    /\ ret = UBPF_WALK_CONTINUE
    /\ \E k \in Offsets :
          /\ IsBranch(k) /\ JumpTarget(k) \in Offsets /\ JumpTarget(k) < k
          /\ OnCycle(k)
          /\ visited[k] = 1

\* C12 (recursion depth bound): at every point of a walk that ubpf_verify
\* performs on an n-instruction program, at most n invocations of
\* ubpf_walk_paths are active (nested) at the same time.
C12_DepthBound ==
    pc \in {"loops", "regs"} => Len(stack) <= num_insts

\* the verdict that goes with a diagnostic of a walk
VerdictOf(d) ==
    IF d.kind \in {"Jump to self", "Jump out-of-bounds"}
    THEN UBPF_WALK_INVALID
    ELSE UBPF_WALK_STOP

\* C13 (verdict propagation): in a walk, the first verdict other than continue
\* (a visitor's stop, or the walker's structurally-invalid for a self-jump or an
\* out-of-bounds jump; each comes with its diagnostic) is the value in flight
\* from then on: no instruction is visited after it, nothing more is logged,
\* and the top-level walk returns exactly that verdict; continue is returned
\* only when no invocation produced another verdict.
C13_VerdictPropagation ==
    /\ [](InWalk => /\ (log = <<>>) <=> (ret \in {NoValue, UBPF_WALK_CONTINUE})
                    /\ (log # <<>>) => (Len(log) = 1 /\ ret = VerdictOf(log[1])))
    /\ [][(InWalk /\ ret \in {UBPF_WALK_STOP, UBPF_WALK_INVALID} /\ pc' = pc)
            => (visits' = visits /\ visited' = visited /\ ret' = ret /\ log' = log
                /\ Len(stack') < Len(stack))]_vars

\* C13 witness: a walk returned stop or structurally-invalid from below a
\* jump (the verdict was raised at another offset than the jump's) and the
\* jump's fall-through instruction was never visited.
C13_Witness ==
    /\ WalkReturned
    /\ ret \in {UBPF_WALK_STOP, UBPF_WALK_INVALID}
    /\ \E k \in Offsets :
          /\ IsBranch(k) /\ visits[k] = 1
          /\ JumpTarget(k) \in Offsets /\ visits[JumpTarget(k)] = 1
          /\ k + 1 \in Offsets /\ visits[k + 1] = 0
          /\ log[1].off # k

\* the offsets the walk of the first pass left unmarked
Unmarked == {i \in Offsets : visited[i] = 0}

\* the diagnostics logged by the scan: what the log holds beyond the walk's own
\* diagnostic (a walk logs one diagnostic exactly when its verdict is not continue)
ScanLog ==
    IF ret = UBPF_WALK_CONTINUE THEN log ELSE SubSeq(log, 2, Len(log))

\* C14 (loop/dead-code pass verdict): the scan of visited runs after the walk
\* whatever the walk returned; it reports exactly the unmarked offsets as
\* dead, in ascending order; the pass returns non-zero iff the walk's verdict
\* is not continue or some offset is unmarked.
C14_LoopsPassVerdict ==
    pc = "loops_done" =>
        /\ ret \in {UBPF_WALK_CONTINUE, UBPF_WALK_STOP, UBPF_WALK_INVALID}
        /\ ScanLog = DeadDiags(visited, 0)
        /\ {d.off : d \in Range(ScanLog)} = Unmarked
        /\ \A d \in Range(ScanLog) : d.kind = "Dead instruction"
        /\ Len(ScanLog) = Cardinality(Unmarked)
        /\ (loops_ret # 0) <=> (ret # UBPF_WALK_CONTINUE \/ Unmarked # {})
        /\ (loops_ret = 0) <=> (ret = UBPF_WALK_CONTINUE /\ \A i \in Offsets : visited[i] = 1)

\* C14 witness: the walk returned stop or structurally-invalid and the scan
\* still ran and reported a dead instruction.
C14_Witness ==
    /\ pc = "loops_done"
    /\ ret \in {UBPF_WALK_STOP, UBPF_WALK_INVALID}
    /\ Unmarked # {}
    /\ Len(log) >= 2
    /\ loops_ret # 0

\* the program has no cycle, no dead code, and every branch target in bounds
Acyclic == \A i \in Offsets : ~OnCycle(i)
NoDeadCode == Reachable = Offsets
JumpsInBounds == \A i \in Offsets : IsBranch(i) => JumpTarget(i) \in Offsets

\* C15 (no false loop reports): "Loop detected" is reported at a jump (here:
\* one whose target is inside the program) only if a cycle of the control-flow
\* graph goes through that jump; and a program without cycles, without dead
\* code and with all jumps in bounds passes the loop/dead-code pass.
C15_NoFalseLoopReports ==
    /\ \A d \in Range(log) :
          (d.kind = "Loop detected" /\ JumpTarget(d.off) \in Offsets) => OnCycle(d.off)
    /\ (pc = "loops_done" /\ Acyclic /\ NoDeadCode /\ JumpsInBounds) => loops_ret = 0

----------------------------------------------------------------------------
(* The zero idiom: xor r, r on every register, 32-bit and 64-bit *)

\* longest run of xor r, r instructions put in front of [add r0 += r3; exit]
MaxIdiomInsts == 2

I_XOR64(r) == Inst(EBPF_OP_XOR64_REG, r, r, 0)
I_XOR32(r) == Inst(EBPF_OP_XOR_REG, r, r, 0)
IdiomInsts == {I_XOR64(r) : r \in AllRegs} \cup {I_XOR32(r) : r \in AllRegs}

InitIdiom ==
    InitWith({p \o <<I_ADD_R0_R3, I_EXIT>> : p \in Programs(IdiomInsts, MaxIdiomInsts)})
SpecIdiom == InitIdiom /\ [][Next]_vars

ProgXorAdd == <<I_XOR_R3_R3, I_ADD_R0_R3, I_EXIT>>

\* the register visitor is about to run on a xor r, r
AtIdiom ==
    /\ pc = "regs" /\ stack # <<>> /\ Top.at = "entry"
    /\ IsXorIdiom(InstAt(Top.inst_off))

\* C16 (zero idiom): the register visitor's step on a 32-bit or 64-bit
\* register-register xor with dst = src = r, for any register r and any bitmap,
\* continues the walk, logs nothing, sets slot r and changes no other slot; and
\* [xor64 r3,r3; add r0 += r3; exit] is accepted without a diagnostic.
C16_ZeroIdiom ==
    /\ [][AtIdiom =>
            /\ reg_init' = [reg_init EXCEPT ![InstAt(Top.inst_off).dst] = 1]
            /\ log' = log
            /\ ret' \in {NoValue, UBPF_WALK_CONTINUE}
            /\ visits'[Top.inst_off] = visits[Top.inst_off] + 1]_vars
    /\ []((insts = ProgXorAdd /\ pc = "done") => (result = 0 /\ log = <<>>))

\* C16 witness: a program starting with the 32-bit xor r3, r3, followed by
\* xor r, r on a register that was not yet initialized, was accepted.
C16_Witness ==
    /\ Accepted
    /\ Len(insts) = 4
    /\ insts[1] = I_XOR32(3)
    /\ IsXorIdiom(insts[2]) /\ insts[2].dst \notin {1, 3, 10}
    /\ reg_init[insts[2].dst] = 1

----------------------------------------------------------------------------
(* Calls whose offset field holds any value *)

I_CALL_OFF(o) == Inst(EBPF_OP_CALL, 0, 0, o)
CallInsts ==
    {I_MOV_IMM, I_EXIT}
    \cup {I_JEQ_IMM(o) : o \in BranchOffsets(MaxOff)}
    \cup {I_CALL_OFF(o) : o \in BranchOffsets(MaxOff)}

InitCall == InitWith(Programs(CallInsts, MaxInsts))
SpecCall == InitCall /\ [][Next]_vars

IsCall(i) == InstAt(i).opcode = EBPF_OP_CALL

\* ubpf_walk_paths is about to run on a call instruction
AtCall ==
    /\ pc \in {"loops", "regs"} /\ stack # <<>> /\ Top.at = "entry"
    /\ IsCall(Top.inst_off)

\* C17 (call is not a branch): isjmp is false for a call whatever its offset
\* field holds; the walker's step on a call logs no diagnostic (no self-jump,
\* no out-of-bounds jump, no loop), returns no failing verdict, and either
\* calls itself on the next offset through the fall-through or, at the last
\* instruction, returns continue; no invocation ever waits in a jump call made
\* from a call instruction.
C17_CallIsNotBranch ==
    /\ [](\A i \in Offsets : IsCall(i) => ~isjmp(InstAt(i)))
    /\ [](\A k \in DOMAIN stack : stack[k].at = "jump" => ~IsCall(stack[k].inst_off))
    /\ [][AtCall =>
            /\ log' = log
            /\ IF Top.inst_off = num_insts - 1
               THEN stack' = Pop(stack) /\ ret' = UBPF_WALK_CONTINUE
               ELSE /\ stack' = Append([stack EXCEPT ![Len(stack)].at = "fall"],
                                       Frame(Top.inst_off + 1, "entry"))
                    /\ ret' = NoValue]_vars

\* C17 witness: a program was accepted that holds a call whose offset field
\* would make it a self-jump, a call whose offset field points below offset 0,
\* and ends with a call whose offset field points past the end.
C17_Witness ==
    /\ Accepted
    /\ \E i, j \in Offsets :
          /\ IsCall(i) /\ JumpTarget(i) = i
          /\ IsCall(j) /\ JumpTarget(j) < 0
    /\ IsCall(num_insts - 1) /\ JumpTarget(num_insts - 1) > num_insts - 1

\* the indices at which the loop visitor has read visited[] so far (line 272:
\* the read happens when isjmp(inst) and the target is below inst_off)
LoopVisitorReads ==
    {JumpTarget(k) : k \in {j \in Offsets : /\ visits[j] > 0
                                            /\ isjmp(InstAt(j))
                                            /\ JumpTarget(j) < j}}

\* C18 (in-bounds access): every invocation of ubpf_walk_paths is at an offset
\* in [0, n-1] (its read of insts[] and its write of visited[]), and every
\* read of visited[] made by the loop visitor is at an index in [0, n-1].
C18_InBoundsAccess ==
    /\ \A k \in DOMAIN stack : stack[k].inst_off \in Offsets
    /\ DOMAIN visited = Offsets
    /\ (pc = "loops") => (LoopVisitorReads \subseteq Offsets)

\* the slots of the bitmap that a step changes
ChangedSlots == {r \in AllRegs : reg_init'[r] # reg_init[r]}

\* the register visitor is about to run
AtRegsVisit == pc = "regs" /\ stack # <<>> /\ Top.at = "entry"

\* C19 (bitmap monotonicity): the register pass starts with exactly r1 and r10
\* set; r1 and r10 stay set; no step of the pass clears a slot; a step that
\* returns stop changes no slot; a visitor step sets at most the destination
\* register of its instruction and, for call, r0.
C19_BitmapMonotone ==
    /\ [][(pc # "regs" /\ pc' = "regs") => reg_init' = FreshRegInit]_vars
    /\ [](pc = "regs" => (reg_init[1] = 1 /\ reg_init[10] = 1))
    /\ [][(pc = "regs" /\ pc' = "regs") =>
            /\ \A r \in AllRegs : reg_init[r] = 1 => reg_init'[r] = 1
            /\ (ret' = UBPF_WALK_STOP) => (reg_init' = reg_init)
            /\ IF AtRegsVisit
               THEN /\ ChangedSlots \subseteq WritesOf(Top.inst_off)
                    /\ \A r \in ChangedSlots : reg_init'[r] = 1
               ELSE ChangedSlots = {}]_vars

\* C19 witness: in the register pass a call was visited and set r0, then a
\* read of the uninitialized r3 returned stop, leaving r0, r1 and r10 set.
C19_Witness ==
    /\ pc = "regs" /\ ret = UBPF_WALK_STOP
    /\ \E k \in Offsets : IsCall(k) /\ visits[k] > 0
    /\ reg_init[0] = 1 /\ reg_init[1] = 1 /\ reg_init[10] = 1 /\ reg_init[3] = 0
    /\ log # <<>> /\ log[1].kind = "Uninitialized register" /\ log[1].arg = 3
====
